---- MODULE Spec2Model ----
(***************************************************************************)
(* Blogicum (django-sprint4): the store of posts, categories, locations   *)
(* and comments, and the request handlers of blog/views.py acting on it.  *)
(* Every handler is an operator from (store, request) to its response and *)
(* the write it makes. A request that writes nothing leaves the store as  *)
(* it is (a stuttering step); a request that writes is a step of the      *)
(* handler's action. The read handlers are operators on the store.        *)
(***************************************************************************)
EXTENDS Integers, FiniteSets, Sequences, TLC

\* ---------------------------------------------------------------- bounds
MaxPosts == 1
MaxComments == 1
MaxTime == 1

\* ------------------------------------------------------------- vocabulary
Users == {"alice", "bob"}
Anon == "anonymous"
Viewers == Users \cup {Anon}
Null == "null"
CategorySlugs == {"news"}
LocationIds == {"loc1"}
Texts == {"", "a", "b"}
Times == 0..MaxTime
PostIds == 1..MaxPosts
CommentIds == 1..MaxComments
Methods == {"GET", "POST"}

VARIABLES posts, comments, categories, locations, nextPostId, nextCommentId,
          now,
          requests,   \* the edit and create requests loaded and not yet saved
          served      \* the listing pages served since the store last changed

store == <<posts, comments, categories, locations, nextPostId, nextCommentId>>
vars == <<posts, comments, categories, locations, nextPostId, nextCommentId,
          now, requests, served>>

\* ------------------------------------------------------------ the models
\* blog/models.py Post: the fields the views read and PostForm writes (title,
\* text and image are free text that no handler reads; pub_date, location and
\* category stand for the form's fields).
Post(author, pub_date, location, category, is_published) ==
    [author |-> author, pub_date |-> pub_date,
     location |-> location, category |-> category,
     is_published |-> is_published]

\* blog/models.py Comment.
Comment(post, author, text, is_published) ==
    [post |-> post, author |-> author, text |-> text,
     is_published |-> is_published]

\* blog/models.py Category (its slug is the key of `categories`).
Category(is_published) == [is_published |-> is_published]

NoPost == Post(Null, 0, Null, Null, FALSE)

\* A function restricted to the keys in S.
Restrict(f, S) == [k \in S |-> f[k]]

\* ------------------------------------------------------------- responses
\* What a handler returns: the HTTP outcome (status, redirect target), what
\* the rendered page shows (the post, the listed posts) and the write it made.
Response(status, target, target_id, post, shown, effect) ==
    [status |-> status, target |-> target, target_id |-> target_id,
     post |-> post, shown |-> shown, effect |-> effect]

\* raise Http404 / get_object_or_404 failing (DEBUG = False: the 404 page).
Http404 == Response("NotFound", "none", 0, NoPost, {}, "none")

\* render(request, template, context)
Render(post, shown) == Response("OK", "none", 0, post, shown, "none")

\* redirect(name, post_id=...)
Redirect(target, target_id, effect) ==
    Response("Redirect", target, target_id, NoPost, {}, effect)

\* @login_required / LoginRequiredMixin for an anonymous user.
RedirectToLogin == Redirect("login", 0, "none")

\* get_object_or_404(Post, pk=post_id) finds a row.
PostExists(P, post_id) == post_id \in DOMAIN P

\* ---------------------------------------------------------- read handlers
\* index(): the queryset before pagination. The lookup category__is_published
\* joins the category row, so a post whose category is NULL is not matched.
index_queryset(P, Cats, t) ==
    {id \in DOMAIN P :
        /\ P[id].is_published
        /\ P[id].pub_date <= t
        /\ P[id].category # Null
        /\ Cats[P[id].category].is_published}

index(P, Cats, t) == Render(NoPost, index_queryset(P, Cats, t))

\* post_detail with the pub_date test left out.
post_detail_no_date(P, Cats, user, post_id, t) ==
    IF ~PostExists(P, post_id) THEN Http404
    ELSE LET post == P[post_id] IN
         IF /\ user # post.author
            /\ \/ ~post.is_published
               \/ (post.category # Null /\ ~Cats[post.category].is_published)
         THEN Http404
         ELSE Render(post, {post_id})

\* post_detail raising PermissionDenied for a post the viewer may not see.
post_detail_forbidden(P, Cats, user, post_id, t) ==
    IF ~PostExists(P, post_id) THEN Http404
    ELSE LET post == P[post_id] IN
         IF /\ user # post.author
            /\ \/ ~post.is_published
               \/ post.pub_date > t
               \/ (post.category # Null /\ ~Cats[post.category].is_published)
         THEN Response("Forbidden", "none", 0, NoPost, {}, "none")
         ELSE Render(post, {post_id})

\* post_detail(request, post_id)
post_detail(P, Cats, user, post_id, t) ==
    IF ~PostExists(P, post_id) THEN Http404
    ELSE LET post == P[post_id] IN
         IF /\ user # post.author
            /\ \/ ~post.is_published
               \/ post.pub_date > t
               \/ (post.category # Null /\ ~Cats[post.category].is_published)
         THEN Http404
         ELSE Render(post, {post_id})

\* category_posts looking the category up without is_published=True.
category_posts_unfiltered(P, Cats, category_slug, t) ==
    IF category_slug \notin DOMAIN Cats
    THEN Http404
    ELSE Render(NoPost, {id \in DOMAIN P :
                            /\ P[id].is_published
                            /\ P[id].pub_date <= t
                            /\ P[id].category = category_slug})

\* category_posts(request, category_slug)
category_posts(P, Cats, category_slug, t) ==
    IF ~(category_slug \in DOMAIN Cats /\ Cats[category_slug].is_published)
    THEN Http404
    ELSE Render(NoPost, {id \in DOMAIN P :
                            /\ P[id].is_published
                            /\ P[id].pub_date <= t
                            /\ P[id].category = category_slug})

\* profile(request, username)
profile(P, user, username, t) ==
    IF user = Anon THEN RedirectToLogin
    ELSE IF username \notin Users THEN Http404
    ELSE LET post_list == {id \in DOMAIN P : P[id].author = username} IN
         IF user = username
         THEN Render(NoPost, post_list)
         ELSE Render(NoPost, {id \in post_list :
                                 P[id].is_published /\ P[id].pub_date <= t})

\* ------------------------------------------------------------------ forms
\* PostForm.is_valid(): category is required and is chosen among the
\* published categories; location is optional, among the locations.
PostForm_is_valid(Cats, Locs, form) ==
    /\ form.category # Null
    /\ form.category \in DOMAIN Cats
    /\ Cats[form.category].is_published
    /\ (form.location = Null \/ form.location \in Locs)

PostForms == [pub_date : Times,
              location : LocationIds \cup {Null},
              category : CategorySlugs \cup {Null}]

\* CommentForm.is_valid(): text is required.
CommentForm_is_valid(text) == text # ""

\* -------------------------------------------------------- write handlers
\* test_func passing every authenticated user.
test_func_any_user(P, user, post_id) ==
    IF user = Anon THEN "False"
    ELSE IF ~PostExists(P, post_id) THEN "Http404"
    ELSE "True"

\* BasePostAccessMixin.test_func; "Http404" stands for get_object() raising 404.
test_func(P, user, post_id) ==
    IF user = Anon THEN "False"
    ELSE IF ~PostExists(P, post_id) THEN "Http404"
    ELSE IF user = P[post_id].author THEN "True" ELSE "False"

\* BasePostAccessMixin.handle_no_permission
handle_no_permission(post_id) == Redirect("post_detail", post_id, "none")

\* PostCreateView (LoginRequiredMixin, CreateView)
PostCreateView(Cats, Locs, user, method, form) ==
    IF user = Anon THEN RedirectToLogin
    ELSE IF method = "POST" /\ PostForm_is_valid(Cats, Locs, form)
    THEN Redirect("profile", 0, "create_post")
    ELSE Render(NoPost, {})

\* PostUpdateView (BasePostAccessMixin, UpdateView)
PostUpdateView(P, Cats, Locs, user, post_id, method, form) ==
    LET allowed == test_func(P, user, post_id) IN
    IF allowed = "Http404" THEN Http404
    ELSE IF allowed = "False" THEN handle_no_permission(post_id)
    ELSE IF method = "POST" /\ PostForm_is_valid(Cats, Locs, form)
    THEN Redirect("post_detail", post_id, "save_post")
    ELSE Render(P[post_id], {post_id})

\* PostDeleteView (BasePostAccessMixin, DeleteView)
PostDeleteView(P, user, post_id, method) ==
    LET allowed == test_func(P, user, post_id) IN
    IF allowed = "Http404" THEN Http404
    ELSE IF allowed = "False" THEN handle_no_permission(post_id)
    ELSE IF method = "POST"
    THEN Redirect("index", 0, "delete_post")
    ELSE Render(P[post_id], {post_id})

\* ProfileUpdateView (LoginRequiredMixin, UpdateView on the User row)
ProfileUpdateView(user, method) ==
    IF user = Anon THEN RedirectToLogin
    ELSE IF method = "POST"
    THEN Redirect("profile", 0, "save_user")
    ELSE Render(NoPost, {})

\* add_comment without @login_required.
add_comment_no_login(P, Cats, user, post_id, t, method, text) ==
    IF ~PostExists(P, post_id) THEN Http404
    ELSE LET post == P[post_id] IN
         IF /\ user # post.author
            /\ \/ ~post.is_published
               \/ post.pub_date > t
               \/ (post.category # Null /\ ~Cats[post.category].is_published)
         THEN Http404
         ELSE IF method = "POST" /\ CommentForm_is_valid(text)
         THEN Redirect("post_detail", post_id, "create_comment")
         ELSE Render(post, {post_id})

\* add_comment without the test of the post's availability.
add_comment_unchecked(P, Cats, user, post_id, t, method, text) ==
    IF user = Anon THEN RedirectToLogin
    ELSE IF ~PostExists(P, post_id) THEN Http404
    ELSE IF method = "POST" /\ CommentForm_is_valid(text)
    THEN Redirect("post_detail", post_id, "create_comment")
    ELSE Render(P[post_id], {post_id})

\* add_comment(request, post_id)
add_comment(P, Cats, user, post_id, t, method, text) ==
    IF user = Anon THEN RedirectToLogin
    ELSE IF ~PostExists(P, post_id) THEN Http404
    ELSE LET post == P[post_id] IN
         IF /\ user # post.author
            /\ \/ ~post.is_published
               \/ post.pub_date > t
               \/ (post.category # Null /\ ~Cats[post.category].is_published)
         THEN Http404
         ELSE IF method = "POST" /\ CommentForm_is_valid(text)
         THEN Redirect("post_detail", post_id, "create_comment")
         ELSE Render(post, {post_id})

\* edit_comment(request, post_id, comment_id)
edit_comment(C, user, post_id, comment_id, method, text) ==
    IF user = Anon THEN RedirectToLogin
    ELSE IF comment_id \notin DOMAIN C THEN Http404
    ELSE IF user # C[comment_id].author
    THEN Redirect("post_detail", post_id, "none")
    ELSE IF method = "POST" /\ CommentForm_is_valid(text)
    THEN Redirect("post_detail", post_id, "save_comment")
    ELSE Render(NoPost, {})

\* delete_comment(request, post_id, comment_id)
delete_comment(C, user, post_id, comment_id, method) ==
    IF user = Anon THEN RedirectToLogin
    ELSE IF ~(comment_id \in DOMAIN C /\ C[comment_id].author = user)
    THEN Http404
    ELSE IF method = "POST"
    THEN Redirect("post_detail", post_id, "delete_comment")
    ELSE Render(NoPost, {})

\* ------------------------------------------------------------ store writes
\* Comment.post without the cascade: the comments stay.
CascadeComments_none(C, gone) == C

\* on_delete=models.CASCADE of Comment.post: the comments left after the
\* posts in `gone` are deleted.
CascadeComments(C, gone) ==
    Restrict(C, {c \in DOMAIN C : C[c].post \notin gone})

\* on_delete=models.SET_NULL of Post.category
SetNullCategory(P, slug) ==
    [id \in DOMAIN P |->
        IF P[id].category = slug THEN [P[id] EXCEPT !.category = Null]
        ELSE P[id]]

\* on_delete=models.SET_NULL of Post.location
SetNullLocation(P, loc) ==
    [id \in DOMAIN P |->
        IF P[id].location = loc THEN [P[id] EXCEPT !.location = Null]
        ELSE P[id]]

\* ModelForm.save() of PostForm on an existing post: the form's fields only.
PostForm_save(post, form) ==
    [post EXCEPT !.pub_date = form.pub_date, !.location = form.location,
                 !.category = form.category]

\* ModelForm.save() of CommentForm on an existing comment: text only.
CommentForm_save(comment, text) == [comment EXCEPT !.text = text]

\* ----------------------------------------------------------------- states
\* A site whose staff has created the categories and no location.
Init ==
    /\ posts = <<>>
    /\ comments = <<>>
    /\ categories = [s \in CategorySlugs |-> Category(TRUE)]
    /\ locations = {}
    /\ nextPostId = 1
    /\ nextCommentId = 1
    /\ now = 0
    /\ requests = <<>>
    /\ served = <<>>

\* The same site with its locations created too.
InitLocations ==
    /\ posts = <<>>
    /\ comments = <<>>
    /\ categories = [s \in CategorySlugs |-> Category(TRUE)]
    /\ locations = LocationIds
    /\ nextPostId = 1
    /\ nextCommentId = 1
    /\ now = 0
    /\ requests = <<>>
    /\ served = <<>>

\* ----------------------------------------------------------- write actions
\* Each action is the handler's writing path: the request's inputs are drawn
\* here, the handler decides, and the write it names is applied.
CreatePost ==
    \E user \in Viewers, method \in Methods, form \in PostForms :
        /\ PostCreateView(categories, locations, user, method, form).effect
              = "create_post"
        /\ nextPostId <= MaxPosts
        /\ posts' = [id \in DOMAIN posts \cup {nextPostId} |->
                        IF id = nextPostId
                        THEN Post(user, form.pub_date, form.location,
                                  form.category, TRUE)
                        ELSE posts[id]]
        /\ nextPostId' = nextPostId + 1
        /\ UNCHANGED <<comments, categories, locations, nextCommentId, now,
                       requests, served>>

EditPost ==
    \E user \in Viewers, post_id \in PostIds, method \in Methods,
       form \in PostForms :
        /\ PostUpdateView(posts, categories, locations, user, post_id,
                          method, form).effect = "save_post"
        /\ posts' = [posts EXCEPT
                        ![post_id] = PostForm_save(posts[post_id], form)]
        /\ UNCHANGED <<comments, categories, locations, nextPostId,
                       nextCommentId, now,
                       requests, served>>

DeletePost ==
    \E user \in Viewers, post_id \in PostIds, method \in Methods :
        /\ PostDeleteView(posts, user, post_id, method).effect = "delete_post"
        /\ posts' = Restrict(posts, DOMAIN posts \ {post_id})
        /\ comments' = CascadeComments(comments, {post_id})
        /\ UNCHANGED <<categories, locations, nextPostId, nextCommentId, now,
                       requests, served>>

AddComment ==
    \E user \in Viewers, post_id \in PostIds, method \in Methods,
       text \in Texts :
        /\ add_comment(posts, categories, user, post_id, now, method,
                       text).effect = "create_comment"
        /\ nextCommentId <= MaxComments
        /\ comments' = [id \in DOMAIN comments \cup {nextCommentId} |->
                           IF id = nextCommentId
                           THEN Comment(post_id, user, text, TRUE)
                           ELSE comments[id]]
        /\ nextCommentId' = nextCommentId + 1
        /\ UNCHANGED <<posts, categories, locations, nextPostId, now,
                       requests, served>>

EditComment ==
    \E user \in Viewers, post_id \in PostIds, comment_id \in CommentIds,
       method \in Methods, text \in Texts :
        /\ edit_comment(comments, user, post_id, comment_id, method,
                        text).effect = "save_comment"
        /\ comments' = [comments EXCEPT ![comment_id] =
                           CommentForm_save(comments[comment_id], text)]
        /\ UNCHANGED <<posts, categories, locations, nextPostId,
                       nextCommentId, now,
                       requests, served>>

DeleteComment ==
    \E user \in Viewers, post_id \in PostIds, comment_id \in CommentIds,
       method \in Methods :
        /\ delete_comment(comments, user, post_id, comment_id,
                          method).effect = "delete_comment"
        /\ comments' = Restrict(comments, DOMAIN comments \ {comment_id})
        /\ UNCHANGED <<posts, categories, locations, nextPostId,
                       nextCommentId, now,
                       requests, served>>

\* ----------------------------------------------------------- admin actions
\* blog/admin.py: the staff's changes to the store (the list_editable
\* is_published flags and the admin's delete action).
AdminSetCategoryPublished ==
    \E slug \in DOMAIN categories, flag \in BOOLEAN :
        /\ categories' = [categories EXCEPT ![slug].is_published = flag]
        /\ UNCHANGED <<posts, comments, locations, nextPostId, nextCommentId,
                       now,
                       requests, served>>

AdminSetPostPublished ==
    \E post_id \in DOMAIN posts, flag \in BOOLEAN :
        /\ posts' = [posts EXCEPT ![post_id].is_published = flag]
        /\ UNCHANGED <<comments, categories, locations, nextPostId,
                       nextCommentId, now,
                       requests, served>>

AdminDeleteCategory ==
    \E slug \in DOMAIN categories :
        /\ categories' = Restrict(categories, DOMAIN categories \ {slug})
        /\ posts' = SetNullCategory(posts, slug)
        /\ UNCHANGED <<comments, locations, nextPostId, nextCommentId, now,
                       requests, served>>

AdminDeleteLocation ==
    \E loc \in locations :
        /\ locations' = locations \ {loc}
        /\ posts' = SetNullLocation(posts, loc)
        /\ UNCHANGED <<comments, categories, nextPostId, nextCommentId, now,
                       requests, served>>

\* timezone.now() is later at a later request.
Tick ==
    /\ now < MaxTime
    /\ now' = now + 1
    /\ UNCHANGED <<store, requests, served>>

\* ---------------------------------------------------------- specifications
Next ==
    \/ CreatePost
    \/ EditPost
    \/ DeletePost
    \/ AddComment
    \/ EditComment
    \/ DeleteComment
    \/ AdminSetCategoryPublished
    \/ AdminSetPostPublished
    \/ AdminDeleteCategory
    \/ Tick

Spec == Init /\ [][Next]_vars

\* Creation, edit and deletion on a site with locations.
NextLocations ==
    \/ CreatePost
    \/ EditPost
    \/ DeletePost
    \/ AddComment
    \/ EditComment
    \/ DeleteComment
    \/ AdminDeleteCategory
    \/ AdminDeleteLocation

SpecLocations == InitLocations /\ [][NextLocations]_vars

\* ------------------------------------------------------------- properties
\* The spec's rule: a post is publicly visible at time t.
PubliclyVisible(P, Cats, id, t) ==
    /\ P[id].is_published
    /\ P[id].pub_date <= t
    /\ (P[id].category = Null \/ Cats[P[id].category].is_published)

\* The spec's is_visible(post, viewer, now).
VisibleTo(P, Cats, user, id, t) ==
    user = P[id].author \/ PubliclyVisible(P, Cats, id, t)

PostsOf(P, username) == {id \in DOMAIN P : P[id].author = username}

\* C1: for every post, viewer (anonymous or authenticated) and time, the
\* detail request answers OK with the post's content iff the viewer is the
\* author or the post is published, due and its category is null or
\* published; in every other case it answers NotFound.
C1_DetailVisibility ==
    \A id \in DOMAIN posts, user \in Viewers, t \in Times :
        LET r == post_detail(posts, categories, user, id, t) IN
        IF VisibleTo(posts, categories, user, id, t)
        THEN r.status = "OK" /\ r.post = posts[id]
        ELSE r.status = "NotFound"

\* A post that is unpublished or future-dated: NotFound for the anonymous
\* viewer, shown to its author.
C1_Witness ==
    \E id \in DOMAIN posts :
        /\ ~posts[id].is_published \/ posts[id].pub_date > now
        /\ post_detail(posts, categories, Anon, id, now).status = "NotFound"
        /\ post_detail(posts, categories, posts[id].author, id, now).status
              = "OK"

\* C2: at every time, the index listing holds exactly the publicly visible
\* posts, with and without a category.
C2_IndexListsPubliclyVisible ==
    \A t \in Times :
        index(posts, categories, t).shown =
            {id \in DOMAIN posts : PubliclyVisible(posts, categories, id, t)}

\* C3: the profile page of U shows U every post of U, and shows any other
\* authenticated viewer exactly the publicly visible posts of U.
C3_ProfileListsVisible ==
    \A username \in Users, user \in Users, t \in Times :
        LET r == profile(posts, user, username, t) IN
        /\ r.status = "OK"
        /\ r.shown = IF user = username
                     THEN PostsOf(posts, username)
                     ELSE {id \in PostsOf(posts, username) :
                              PubliclyVisible(posts, categories, id, t)}

\* C4: post edit and post delete write iff the viewer is the post's author
\* (a POST, with a valid form for the edit); every other viewer is redirected
\* to the post's detail page and nothing is written.
C4_OnlyAuthorEditsOrDeletes ==
    \A id \in DOMAIN posts, user \in Viewers, method \in Methods,
       form \in PostForms :
        LET e == PostUpdateView(posts, categories, locations, user, id,
                                method, form)
            d == PostDeleteView(posts, user, id, method)
        IN  IF user = posts[id].author
            THEN /\ e.effect = "save_post" <=>
                       (method = "POST"
                        /\ PostForm_is_valid(categories, locations, form))
                 /\ d.effect = "delete_post" <=> method = "POST"
                 /\ e.target # "post_detail" \/ e.effect = "save_post"
            ELSE /\ e = Redirect("post_detail", id, "none")
                 /\ d = Redirect("post_detail", id, "none")

\* A post that another authenticated user asks to edit and to delete, and
\* that its author can delete.
C4_Witness ==
    \E id \in DOMAIN posts, user \in Users :
        /\ user # posts[id].author
        /\ \E form \in PostForms :
              /\ PostForm_is_valid(categories, locations, form)
              /\ PostUpdateView(posts, categories, locations, user, id,
                                "POST", form).status = "Redirect"
        /\ PostDeleteView(posts, user, id, "POST").effect = "none"
        /\ PostDeleteView(posts, posts[id].author, id, "POST").effect
              = "delete_post"

\* C5: an authenticated user who is not the comment's author and asks to
\* edit or delete it (GET or POST) is redirected to the post's detail page,
\* and nothing is written.
C5_NonAuthorCommentRedirected ==
    \A c \in DOMAIN comments, user \in Users, post_id \in PostIds,
       method \in Methods, text \in Texts :
        user # comments[c].author =>
            /\ edit_comment(comments, user, post_id, c, method, text)
                  = Redirect("post_detail", post_id, "none")
            /\ delete_comment(comments, user, post_id, c, method)
                  = Redirect("post_detail", post_id, "none")

\* C6 as claimed: every mutating endpoint answers an anonymous request with
\* the redirect to the login page and writes nothing.
C6_AnonymousRedirectedToLogin ==
    \A method \in Methods, form \in PostForms, text \in Texts,
       comment_id \in CommentIds :
        /\ PostCreateView(categories, locations, Anon, method, form)
              = RedirectToLogin
        /\ ProfileUpdateView(Anon, method) = RedirectToLogin
        /\ \A post_id \in DOMAIN posts :
              /\ PostUpdateView(posts, categories, locations, Anon, post_id,
                                method, form) = RedirectToLogin
              /\ PostDeleteView(posts, Anon, post_id, method)
                    = RedirectToLogin
              /\ add_comment(posts, categories, Anon, post_id, now, method,
                             text) = RedirectToLogin
              /\ edit_comment(comments, Anon, post_id, comment_id, method,
                              text) = RedirectToLogin
              /\ delete_comment(comments, Anon, post_id, comment_id, method)
                    = RedirectToLogin

\* C6 as amended: an anonymous request to a mutating endpoint writes nothing;
\* create post, add comment, edit comment, delete comment and edit profile
\* redirect to the login page, edit post and delete post redirect to the
\* detail page of the post the URL names.
C6_AnonymousWritesNothing ==
    \A method \in Methods, form \in PostForms, text \in Texts,
       comment_id \in CommentIds, post_id \in PostIds :
        /\ PostCreateView(categories, locations, Anon, method, form)
              = RedirectToLogin
        /\ ProfileUpdateView(Anon, method) = RedirectToLogin
        /\ PostUpdateView(posts, categories, locations, Anon, post_id,
                          method, form)
              = Redirect("post_detail", post_id, "none")
        /\ PostDeleteView(posts, Anon, post_id, method)
              = Redirect("post_detail", post_id, "none")
        /\ add_comment(posts, categories, Anon, post_id, now, method, text)
              = RedirectToLogin
        /\ edit_comment(comments, Anon, post_id, comment_id, method, text)
              = RedirectToLogin
        /\ delete_comment(comments, Anon, post_id, comment_id, method)
              = RedirectToLogin

\* A publicly visible post with a comment: an authenticated user's POST
\* would write to each, the anonymous one is turned away.
C6_Witness ==
    \E id \in DOMAIN posts, c \in DOMAIN comments :
        /\ PubliclyVisible(posts, categories, id, now)
        /\ add_comment(posts, categories, Anon, id, now, "POST", "a")
              = RedirectToLogin
        /\ delete_comment(comments, comments[c].author, id, c, "POST").effect
              = "delete_comment"
        /\ PostDeleteView(posts, Anon, id, "POST").target = "post_detail"

\* C7: in every state where a category is unpublished (the state the toggle
\* leaves, which is what the next request reads, and every later one), the
\* category listing is NotFound, and every post of the category is NotFound
\* on the detail view for non-authors, absent from the index, and shown to
\* its author.
C7_UnpublishedCategoryHidesPosts ==
    \A slug \in DOMAIN categories, t \in Times :
        ~categories[slug].is_published =>
            /\ category_posts(posts, categories, slug, t).status = "NotFound"
            /\ \A id \in DOMAIN posts :
                  posts[id].category = slug =>
                      /\ id \notin index(posts, categories, t).shown
                      /\ \A user \in Viewers \ {posts[id].author} :
                            post_detail(posts, categories, user, id,
                                        t).status = "NotFound"
                      /\ post_detail(posts, categories, posts[id].author, id,
                                     t) = Render(posts[id], {id})

\* A published, due post whose category has been unpublished since.
C7_Witness ==
    \E id \in DOMAIN posts :
        /\ posts[id].is_published
        /\ posts[id].pub_date <= now
        /\ posts[id].category \in DOMAIN categories
        /\ ~categories[posts[id].category].is_published
        /\ category_posts(posts, categories, posts[id].category,
                          now).status = "NotFound"

\* Every stored comment references a stored post.
CommentsHavePosts ==
    \A c \in DOMAIN comments : comments[c].post \in DOMAIN posts

\* A step that deletes a category or a location keeps every post and every
\* comment, and changes in each post nothing but that reference.
DeleteKeepsPosts ==
    /\ \A slug \in DOMAIN categories \ DOMAIN categories' :
          /\ DOMAIN posts' = DOMAIN posts
          /\ comments' = comments
          /\ \A id \in DOMAIN posts :
                posts'[id] = IF posts[id].category = slug
                             THEN [posts[id] EXCEPT !.category = Null]
                             ELSE posts[id]
    /\ \A loc \in locations \ locations' :
          /\ DOMAIN posts' = DOMAIN posts
          /\ comments' = comments
          /\ \A id \in DOMAIN posts :
                posts'[id] = IF posts[id].location = loc
                             THEN [posts[id] EXCEPT !.location = Null]
                             ELSE posts[id]

\* C8: every stored comment references an existing post; a step that deletes
\* a category or a location deletes no post and no comment, and changes in
\* each post nothing but that reference, which becomes null.
C8_ReferentialIntegrity ==
    [](CommentsHavePosts) /\ [][DeleteKeepsPosts]_vars

\* A commented post that has outlived its category and its location.
C8_Witness ==
    \E c \in DOMAIN comments :
        /\ categories = <<>>
        /\ locations = {}
        /\ posts[comments[c].post].category = Null
        /\ posts[comments[c].post].location = Null

\* What add_comment answers an authenticated viewer's valid POST.
AddCommentResponse ==
    \A user \in Users, post_id \in PostIds, t \in Times, text \in Texts :
        CommentForm_is_valid(text) =>
            LET r == add_comment(posts, categories, user, post_id, t, "POST",
                                 text)
            IN  IF /\ post_id \in DOMAIN posts
                   /\ VisibleTo(posts, categories, user, post_id, t)
                THEN r = Redirect("post_detail", post_id, "create_comment")
                ELSE r = Http404

\* What a step that creates a comment creates, and leaves alone.
CommentCreated ==
    \A c \in DOMAIN comments' \ DOMAIN comments :
        /\ comments'[c].author \in Users
        /\ comments'[c].post \in DOMAIN posts
        /\ VisibleTo(posts, categories, comments'[c].author,
                     comments'[c].post, now)
        /\ CommentForm_is_valid(comments'[c].text)
        /\ \A d \in DOMAIN comments : comments'[d] = comments[d]
        /\ posts' = posts

C10_HiddenAsAbsent ==
    \A id \in DOMAIN posts, user \in Viewers, t \in Times :
        (user # posts[id].author
         /\ ~PubliclyVisible(posts, categories, id, t)) =>
            LET without == Restrict(posts, DOMAIN posts \ {id}) IN
            /\ post_detail(posts, categories, user, id, t)
                  = post_detail(without, categories, user, id, t)
            /\ \A method \in Methods, text \in Texts :
                  add_comment(posts, categories, user, id, t, method, text)
                     = add_comment(without, categories, user, id, t, method,
                                   text)

\* A hidden post, asked for by an authenticated user who is not its author.
C10_Witness ==
    \E id \in DOMAIN posts, user \in Users :
        /\ user # posts[id].author
        /\ ~PubliclyVisible(posts, categories, id, now)
        /\ post_detail(posts, categories, user, id, now) = Http404
        /\ add_comment(posts, categories, user, id, now, "POST", "a")
              = Http404

\* C13: for an authenticated viewer who is not the author, the post edit
\* and post delete requests answer the same on the store holding a post
\* hidden from the viewer as on the store that differs only in not holding
\* that post.
C13_EditDeleteHiddenAsAbsent ==
    \A id \in DOMAIN posts, user \in Users, t \in Times :
        (user # posts[id].author
         /\ ~VisibleTo(posts, categories, user, id, t)) =>
            LET without == Restrict(posts, DOMAIN posts \ {id}) IN
            \A method \in Methods, form \in PostForms :
                /\ PostUpdateView(posts, categories, locations, user, id,
                                  method, form)
                      = PostUpdateView(without, categories, locations, user,
                                       id, method, form)
                /\ PostDeleteView(posts, user, id, method)
                      = PostDeleteView(without, user, id, method)

\* The post ids a comment URL can carry: those of the posts and one more.
UrlPostIds == 1..(MaxPosts + 1)

\* C14: an edit_comment or delete_comment request whose post_id is not the
\* comment's own post writes nothing, whoever sends it and whatever it
\* carries.
C14_CommentBelongsToUrlPost ==
    \A c \in DOMAIN comments, user \in Viewers, post_id \in UrlPostIds,
       method \in Methods, text \in Texts :
        post_id # comments[c].post =>
            /\ edit_comment(comments, user, post_id, c, method, text).effect
                  = "none"
            /\ delete_comment(comments, user, post_id, c, method).effect
                  = "none"

\* ------------------------------------------------------------- pagination
\* The number of posts a listing page holds.
POSTS_PER_PAGE == 2

\* The number of posts of the stores whose listings are paged.
MaxListed == 3

\* order_by('-pub_date',): the orders in which the storage may return the
\* rows S. Rows of equal pub_date have no order among themselves, so each
\* query returns them in any.
order_by_pub_date(P, S) ==
    {o \in [1..Cardinality(S) -> S] :
        /\ \A i, j \in DOMAIN o : i # j => o[i] # o[j]
        /\ \A i, j \in DOMAIN o :
              i < j => P[o[i]].pub_date >= P[o[j]].pub_date}

\* Paginator(object_list, POSTS_PER_PAGE).num_pages
Paginator_num_pages(count) ==
    IF count = 0 THEN 1
    ELSE (count + POSTS_PER_PAGE - 1) \div POSTS_PER_PAGE

\* paginator.get_page(number) for a number in 1..num_pages: the slice
\* object_list[bottom:top], which the queryset runs as a query of its own.
Paginator_page(object_list, number) ==
    LET bottom == (number - 1) * POSTS_PER_PAGE
        top == IF bottom + POSTS_PER_PAGE > Len(object_list)
               THEN Len(object_list)
               ELSE bottom + POSTS_PER_PAGE
    IN SubSeq(object_list, bottom + 1, top)

\* The listing requests: the view, the viewer and the slug or username.
ListingRequests ==
    {[view |-> "index", user |-> u, arg |-> Null] : u \in Viewers}
    \cup {[view |-> "category_posts", user |-> u, arg |-> slug] :
             u \in Viewers, slug \in CategorySlugs}
    \cup {[view |-> "profile", user |-> u, arg |-> username] :
             u \in Users, username \in Users}

\* The view a listing request is routed to.
Listing(P, Cats, r, t) ==
    CASE r.view = "index" -> index(P, Cats, t)
      [] r.view = "category_posts" -> category_posts(P, Cats, r.arg, t)
      [] r.view = "profile" -> profile(P, r.user, r.arg, t)

\* A store of up to MaxListed published posts by alice, at any time.
InitPagination ==
    /\ \E n \in 0..MaxListed :
          /\ posts \in [1..n -> {Post("alice", d, Null, "news", TRUE) :
                                    d \in Times}]
          /\ nextPostId = n + 1
    /\ comments = <<>>
    /\ categories = [s \in CategorySlugs |-> Category(TRUE)]
    /\ locations = {}
    /\ nextCommentId = 1
    /\ now \in Times
    /\ requests = <<>>
    /\ served = <<>>

\* A viewer asks for the next page of one listing (?page=1, then 2, ...):
\* the view builds its queryset, the paginator slices it, the storage
\* returns the slice's rows.
ServePage ==
    \E r \in ListingRequests :
        LET response == Listing(posts, categories, r, now)
            number == Len(served) + 1
        IN /\ IF served = <<>> THEN TRUE ELSE served[1].request = r
           /\ response.status = "OK"
           /\ number <= Paginator_num_pages(Cardinality(response.shown))
           /\ \E object_list \in order_by_pub_date(posts, response.shown) :
                 served' = Append(served,
                                  [request |-> r, number |-> number,
                                   page |-> Paginator_page(object_list,
                                                           number)])
           /\ UNCHANGED <<store, now, requests>>

NextPagination == ServePage

SpecPagination == InitPagination /\ [][NextPagination]_vars

\* C12: every served page holds at most POSTS_PER_PAGE posts in descending
\* pub_date, and once pages 1..N of a listing are served on an unchanged
\* store, every listed post is on exactly one page, exactly once.
C12_PagesPartitionListing ==
    served # <<>> =>
        LET listed == Listing(posts, categories, served[1].request,
                              now).shown
            slots == {<<k, i>> \in (DOMAIN served) \X (1..POSTS_PER_PAGE) :
                         i <= Len(served[k].page)}
        IN /\ \A k \in DOMAIN served :
                 /\ Len(served[k].page) <= POSTS_PER_PAGE
                 /\ \A i, j \in DOMAIN served[k].page :
                       i < j => posts[served[k].page[i]].pub_date
                                   >= posts[served[k].page[j]].pub_date
           /\ Len(served) = Paginator_num_pages(Cardinality(listed)) =>
                 \A id \in listed :
                    Cardinality({sl \in slots :
                                    served[sl[1]].page[sl[2]] = id}) = 1

\* ----------------------------------------------------- requests in flight
\* A write request runs in two steps, as the view's code does: it loads
\* the row, checks the requester and the form and builds the instance to
\* store; later Model.save() writes that instance. Requests of other
\* workers run between the two steps.

\* The number of requests a behaviour follows.
MaxRequests == 2

\* A request: its view, its user, the ids of its URL (0 where the URL has
\* none), the instance it is to save, and its rank among the saves made
\* (0 while it has not saved).
Request(view, user, post_id, comment_id, instance, saved) ==
    [view |-> view, user |-> user, post_id |-> post_id,
     comment_id |-> comment_id, instance |-> instance, saved |-> saved]

Saved(R) == {i \in DOMAIN R : R[i].saved > 0}

\* Model.save() that leaves an existing row as it is.
Model_save_insert_only(T, pk, instance) ==
    [k \in DOMAIN T \cup {pk} |-> IF k \in DOMAIN T THEN T[k] ELSE instance]

\* Model.save(): every field of the instance is written to the row of its
\* primary key (UPDATE ... WHERE id = pk, or INSERT for a new row).
Model_save(T, pk, instance) ==
    [k \in DOMAIN T \cup {pk} |-> IF k = pk THEN instance ELSE T[k]]

\* PostUpdateView.post up to form.is_valid(): test_func, get_object and the
\* form applied to the loaded post.
BeginEditPost ==
    \E user \in Viewers, post_id \in DOMAIN posts, form \in PostForms :
        /\ Len(requests) < MaxRequests
        /\ PostUpdateView(posts, categories, locations, user, post_id,
                          "POST", form).effect = "save_post"
        /\ requests' = Append(requests,
                          Request("PostUpdateView", user, post_id, 0,
                                  PostForm_save(posts[post_id], form), 0))
        /\ UNCHANGED <<store, now, served>>

\* edit_comment up to form.is_valid()
BeginEditComment ==
    \E user \in Viewers, post_id \in UrlPostIds,
       comment_id \in DOMAIN comments, text \in Texts :
        /\ Len(requests) < MaxRequests
        /\ edit_comment(comments, user, post_id, comment_id, "POST",
                        text).effect = "save_comment"
        /\ requests' = Append(requests,
                          Request("edit_comment", user, post_id, comment_id,
                                  CommentForm_save(comments[comment_id],
                                                   text), 0))
        /\ UNCHANGED <<store, now, served>>

\* form.save() of a post request: the instance is written; a created post
\* gets the next id.
SavePost ==
    \E i \in DOMAIN requests :
        LET r == requests[i]
            pk == IF r.view = "PostCreateView" THEN nextPostId
                  ELSE r.post_id
        IN /\ r.saved = 0
           /\ r.view \in {"PostCreateView", "PostUpdateView"}
           /\ posts' = Model_save(posts, pk, r.instance)
           /\ nextPostId' = IF r.view = "PostCreateView"
                            THEN nextPostId + 1 ELSE nextPostId
           /\ requests' = [requests EXCEPT
                              ![i].post_id = pk,
                              ![i].saved = Cardinality(Saved(requests)) + 1]
           /\ UNCHANGED <<comments, categories, locations, nextCommentId,
                          now, served>>

\* form.save() / comment.save() of a comment request.
SaveComment ==
    \E i \in DOMAIN requests :
        LET r == requests[i]
            pk == IF r.view = "add_comment" THEN nextCommentId
                  ELSE r.comment_id
        IN /\ r.saved = 0
           /\ r.view \in {"add_comment", "edit_comment"}
           /\ comments' = Model_save(comments, pk, r.instance)
           /\ nextCommentId' = IF r.view = "add_comment"
                               THEN nextCommentId + 1 ELSE nextCommentId
           /\ requests' = [requests EXCEPT
                              ![i].comment_id = pk,
                              ![i].saved = Cardinality(Saved(requests)) + 1]
           /\ UNCHANGED <<posts, categories, locations, nextPostId, now,
                          served>>

\* A site with a post of each user and bob's comment on alice's post.
ConcurrentPosts ==
    <<Post("alice", 0, Null, "news", TRUE), Post("bob", 0, Null, "news", TRUE)>>

ConcurrentComments == <<Comment(1, "bob", "a", TRUE)>>

InitConcurrent ==
    /\ posts = ConcurrentPosts
    /\ comments = ConcurrentComments
    /\ categories = [s \in CategorySlugs |-> Category(TRUE)]
    /\ locations = {}
    /\ nextPostId = Len(ConcurrentPosts) + 1
    /\ nextCommentId = Len(ConcurrentComments) + 1
    /\ now = 0
    /\ requests = <<>>
    /\ served = <<>>

\* Edit requests of several workers, interleaved in every way.
NextConcurrent ==
    \/ BeginEditPost
    \/ BeginEditComment
    \/ SavePost
    \/ SaveComment

SpecConcurrent == InitConcurrent /\ [][NextConcurrent]_vars

\* The request that saved last among those in S.
LastSaved(S) == CHOOSE i \in S : \A j \in S : requests[j].saved
                                                 <= requests[i].saved

PostEdits(post_id) ==
    {i \in Saved(requests) : /\ requests[i].view = "PostUpdateView"
                             /\ requests[i].post_id = post_id}

CommentEdits(comment_id) ==
    {i \in Saved(requests) : /\ requests[i].view = "edit_comment"
                             /\ requests[i].comment_id = comment_id}

\* C11: while edit requests interleave, every further edit by the author
\* is accepted, whatever is pending; each post and comment is exactly the
\* instance of the edit that saved last on it, and one that no edit has
\* saved on is as it was; nothing else in the store changes.
C11_LastWriteWins ==
    /\ \A post_id \in DOMAIN posts, form \in PostForms :
          PostForm_is_valid(categories, locations, form) =>
              PostUpdateView(posts, categories, locations,
                             posts[post_id].author, post_id, "POST",
                             form).effect = "save_post"
    /\ \A comment_id \in DOMAIN comments :
          edit_comment(comments, comments[comment_id].author,
                       comments[comment_id].post, comment_id, "POST",
                       "b").effect = "save_comment"
    /\ DOMAIN posts = DOMAIN ConcurrentPosts
    /\ DOMAIN comments = DOMAIN ConcurrentComments
    /\ \A post_id \in DOMAIN posts :
          posts[post_id] = IF PostEdits(post_id) = {}
                           THEN ConcurrentPosts[post_id]
                           ELSE requests[LastSaved(PostEdits(post_id))]
                                   .instance
    /\ \A comment_id \in DOMAIN comments :
          comments[comment_id] =
              IF CommentEdits(comment_id) = {}
              THEN ConcurrentComments[comment_id]
              ELSE requests[LastSaved(CommentEdits(comment_id))].instance
    /\ categories = [s \in CategorySlugs |-> Category(TRUE)]
    /\ locations = {}

\* Two edits of one post with different content, the one that began first
\* saving last: the post is what that one wrote.
C11_Witness ==
    \E i, j \in DOMAIN requests :
        /\ i < j
        /\ requests[i].view = "PostUpdateView"
        /\ requests[j].view = "PostUpdateView"
        /\ requests[i].post_id = requests[j].post_id
        /\ requests[i].instance # requests[j].instance
        /\ requests[j].saved > 0
        /\ requests[i].saved > requests[j].saved
        /\ posts[requests[i].post_id] = requests[i].instance

\* -------------------------------------------------------------- ownership
\* PostCreateView.form_valid leaving the author unset.
PostCreateView_form_valid_no_author(user, form) ==
    Post(Null, form.pub_date, form.location, form.category, TRUE)

\* PostCreateView.form_valid: form.instance.author = self.request.user; the
\* other fields are the form's, is_published its default.
PostCreateView_form_valid(user, form) ==
    Post(user, form.pub_date, form.location, form.category, TRUE)

\* add_comment: comment = form.save(commit=False); comment.author =
\* request.user; comment.post = post; comment.is_published = True
add_comment_instance(user, post_id, text) ==
    Comment(post_id, user, text, TRUE)

\* PostCreateView.post up to form_valid
BeginCreatePost ==
    \E user \in Viewers, form \in PostForms :
        /\ Len(requests) < MaxRequests
        /\ nextPostId <= MaxPosts
        /\ PostCreateView(categories, locations, user, "POST", form).effect
              = "create_post"
        /\ requests' = Append(requests,
                          Request("PostCreateView", user, 0, 0,
                                  PostCreateView_form_valid(user, form), 0))
        /\ UNCHANGED <<store, now, served>>

\* add_comment up to comment.save()
BeginAddComment ==
    \E user \in Viewers, post_id \in PostIds, text \in Texts :
        /\ Len(requests) < MaxRequests
        /\ nextCommentId <= MaxComments
        /\ add_comment(posts, categories, user, post_id, now, "POST",
                       text).effect = "create_comment"
        /\ requests' = Append(requests,
                          Request("add_comment", user, post_id, 0,
                                  add_comment_instance(user, post_id, text),
                                  0))
        /\ UNCHANGED <<store, now, served>>

\* return redirect(...): a request that has saved is answered and gone.
Respond ==
    \E i \in Saved(requests) :
        /\ requests' = [k \in 1..(Len(requests) - 1) |->
                           IF k < i THEN requests[k] ELSE requests[k + 1]]
        /\ UNCHANGED <<store, now, served>>

\* The create and edit requests of the blog, one after the other, on the
\* site as the staff set it up.
NextOwnership ==
    \/ requests = <<>> /\ BeginCreatePost
    \/ requests = <<>> /\ BeginAddComment
    \/ requests = <<>> /\ BeginEditPost
    \/ requests = <<>> /\ BeginEditComment
    \/ SavePost
    \/ SaveComment
    \/ Respond

SpecOwnership == Init /\ [][NextOwnership]_vars

\* The request that saves in this step.
Saving(i) == requests[i].saved = 0 /\ requests'[i].saved > 0

\* No step changes whose a post or a comment is; a new post is its
\* requester's, a new comment its requester's on the post of its URL.
OwnershipKept ==
    /\ \A id \in DOMAIN posts :
          /\ id \in DOMAIN posts'
          /\ posts'[id].author = posts[id].author
          /\ posts'[id].is_published = posts[id].is_published
    /\ \A c \in DOMAIN comments :
          /\ c \in DOMAIN comments'
          /\ comments'[c].author = comments[c].author
          /\ comments'[c].post = comments[c].post
          /\ comments'[c].is_published = comments[c].is_published
    /\ \A id \in DOMAIN posts' \ DOMAIN posts :
          \E i \in DOMAIN requests :
              /\ Saving(i)
              /\ requests[i].view = "PostCreateView"
              /\ requests[i].user \in Users
              /\ posts'[id].author = requests[i].user
    /\ \A c \in DOMAIN comments' \ DOMAIN comments :
          \E i \in DOMAIN requests :
              /\ Saving(i)
              /\ requests[i].view = "add_comment"
              /\ requests[i].user \in Users
              /\ comments'[c].author = requests[i].user
              /\ comments'[c].post = requests[i].post_id
              /\ requests[i].post_id \in DOMAIN posts

\* C15: over every sequence of create-post, add-comment, edit-post and
\* edit-comment requests, a created post's author is the requesting user,
\* a created comment's author is the requesting user and its post the
\* addressed one, and no post's author and no comment's author or post
\* ever changes (an edit writes the form's fields only).
C15_OwnershipFixedAtCreation == [][OwnershipKept]_vars

\* Alice's post, commented by bob while it was due, after alice's edit has
\* moved its pub_date and saved.
C15_Witness ==
    \E i \in Saved(requests), c \in DOMAIN comments :
        LET r == requests[i] IN
        /\ r.view = "PostUpdateView"
        /\ posts[r.post_id].author = r.user
        /\ posts[r.post_id].pub_date > now
        /\ comments[c].post = r.post_id
        /\ comments[c].author # r.user

====
